---------------------------- MODULE Spec2Model ----------------------------
(***************************************************************************)
(* A model of ALUtils (src/ALUtils/__init__.py, src/ALUtils/io.py): log,   *)
(* the handler registry (create_handler), function_to_command, the Command *)
(* lifecycle object, the DirectModelMode context manager / directmodelmode *)
(* decorator and the AppData store.                                        *)
(*                                                                         *)
(* Python values are modelled by strings: "None" and "False" are the falsy *)
(* values the code tests for, every other string is a truthy object.       *)
(* The host application (adsk) is modelled by plain collections: a list of *)
(* command definitions, a list of controls per toolbar panel, a list of    *)
(* attached handlers per event.  addButtonDefinition, addCommand and       *)
(* Event.add append to them; itemById returns the first item with the id;  *)
(* deleteMe removes that item.  What the host does when addCommand is      *)
(* given a command whose control is already in the panel is not known from *)
(* the source: the model lets it either add a second control or raise.     *)
(***************************************************************************)
EXTENDS Integers, Sequences, FiniteSets, TLC

VARIABLES
    \* ---- handler registry (create_handler called by an arbitrary caller)
    DEBUG,            \* config.DEBUG (False when the import fails)
    handlers,         \* the caller's handlers list
    events,           \* host: event name -> handlers attached with Event.add
    lastCreate,       \* what the last create_handler call did
    lastNotify        \* what EventHandler.notify did, when the last step
                      \* was the host firing an event

varsH == <<DEBUG, handlers, events, lastCreate, lastNotify>>

VARIABLES
    \* ---- a Command object and the host's user interface
    overrides,        \* the callbacks the Command subclass overrides
    commandicons,     \* self.commandicons
    app,              \* self.app
    _command_handlers,\* self._command_handlers
    local_handlers,   \* self.local_handlers
    cmdDefs,          \* host: ui.commandDefinitions
    controls,         \* host: panel.controls of every toolbar panel
    command,          \* host: the command created by the last commandCreated
    lastOp            \* the last operation and what it saw

varsC == <<overrides, commandicons, app, _command_handlers, local_handlers,
           cmdDefs, controls, command, lastOp>>

VARIABLES
    \* ---- AppData and the JSON files on disk
    defaultdata,      \* cls.defaultdata of the AppData (sub)class
    files,            \* disk: path -> the JSON file there
    appdata,          \* an AppData instance m; in a Command, self.appdata
    loaded,           \* what the last loadfromfile of the store returned
    fresh             \* m is unchanged since its last save()

varsA == <<defaultdata, files, appdata, loaded, fresh>>

VARIABLES
    \* ---- DirectModelMode
    designType,       \* host: design -> its designType
    stack,            \* the with-blocks being executed, innermost last
    lastExit          \* the last with-block left and what it saw

varsD == <<designType, stack, lastExit>>

\* the registry's own variables
regH == <<handlers, events, lastCreate>>

vars == <<DEBUG, handlers, events, lastCreate, lastNotify,
          overrides, commandicons, app, _command_handlers, local_handlers,
          cmdDefs, controls, command, lastOp,
          defaultdata, files, appdata, loaded, fresh,
          designType, stack, lastExit>>

-----------------------------------------------------------------------------
(* Bounds of the model *)

\* the longest handlers list the registry model builds
MaxHandlers == 2

\* how many times start() may attach a commandCreated handler before a stop()
MaxStarts == 2

\* commandCreated fires only while local_handlers is shorter than this
MaxLocal == 3

\* the longest commandicons list
MaxPlacements == 2

\* the deepest nesting of with-blocks
MaxDepth == 3

\* start() runs only while every panel holds fewer controls of the Command
MaxControls == 2

-----------------------------------------------------------------------------
(* Python truthiness *)

Truthy(x) == x \notin {"None", "False"}

-----------------------------------------------------------------------------
(* log: the calls forwarded to app.log for an already joined message *)

LogForwardAlwaysToFile(message, level, force_console, debug) ==
    << [message |-> message, level |-> level, type |-> "FileLogType"] >>
    \o
    (IF debug \/ force_console
        THEN << [message |-> message, level |-> level, type |-> "ConsoleLogType"] >>
        ELSE << >>)
    \o
    << [message |-> message, level |-> "default", type |-> "default"] >>

LogForward(message, level, force_console, debug) ==
    (IF level = "ErrorLogLevel"
        THEN << [message |-> message, level |-> level, type |-> "FileLogType"] >>
        ELSE << >>)
    \o
    (IF debug \/ force_console
        THEN << [message |-> message, level |-> level, type |-> "ConsoleLogType"] >>
        ELSE << >>)
    \o
    << [message |-> message, level |-> "default", type |-> "default"] >>

-----------------------------------------------------------------------------
(* create_handler *)

\* the handler classes a classes table can name: the host's handler base
\* classes, and a caller's own class that carries a name attribute
AdskHandlerClasses ==
    {"CommandCreatedEventHandler", "CommandEventHandler",
     "InputChangedEventHandler", "ValidateInputsEventHandler"}

NamedHandlerClass == "NamedHandler"

\* hasattr(EventHandler(), "name"): create_handler never sets it, so it is
\* there only when handler_class provides it
HasName(cls) == cls = NamedHandlerClass

NoHandler == [event |-> "None", callback |-> "None", cls |-> "None"]

\* classes.get(event.name, [None, None])
ClassesGet(classes, name) ==
    IF name \in DOMAIN classes THEN classes[name] ELSE <<"None", "None">>

\* create_handler up to the construction of the handler: the exception it
\* raises ("None" when it raises nothing) and the handler it builds
CreateHandlerResultNoCallbackCheck(name, classes) ==
    LET entry == ClassesGet(classes, name)
        callback == entry[1]
        handler_class == entry[2]
    IN  IF ~Truthy(handler_class)
            THEN [exc |-> "TypeError: Invalid command", handler |-> NoHandler]
            ELSE [exc |-> "None",
                  handler |-> [event |-> name, callback |-> callback,
                               cls |-> handler_class]]

CreateHandlerResult(name, classes) ==
    LET entry == ClassesGet(classes, name)
        callback == entry[1]
        handler_class == entry[2]
    IN  IF ~Truthy(handler_class)
            THEN [exc |-> "TypeError: Invalid command", handler |-> NoHandler]
        ELSE IF ~Truthy(callback)
            THEN [exc |-> "TypeError: Callback not defined", handler |-> NoHandler]
        ELSE [exc |-> "None",
              handler |-> [event |-> name, callback |-> callback,
                           cls |-> handler_class]]

\* event.add(handler) / handlers.append(handler): the list after the call
AddHandler(list, res) ==
    IF res.exc = "None" THEN Append(list, res.handler) ELSE list

-----------------------------------------------------------------------------
(* EventHandler.notify *)

ErrorMessage == "ERROR: name + traceback.format_exc()"

\* What notify does around the callback: whether an exception leaves notify
\* and what reaches app.log.  raises: the callback raised.
NotifyOutcome(handler, raises, debug) ==
    IF ~raises
        THEN [raised |-> FALSE, propagated |-> FALSE, log |-> << >>]
    ELSE IF ~HasName(handler.cls)
        \* the except block reads self.name: AttributeError leaves notify
        THEN [raised |-> TRUE, propagated |-> TRUE, log |-> << >>]
    ELSE [raised |-> TRUE, propagated |-> FALSE,
          log |-> LogForward(ErrorMessage, "ErrorLogLevel", FALSE, debug)]

-----------------------------------------------------------------------------
(* The registry on its own: any caller, any classes table *)

RegistryEvents == {"OnExecute", "OnDestroy", "OnActivate"}

TableNames == {"OnExecute", "OnDestroy"}

TableEntries ==
    {"None", "False", "callback"}
        \X {"None", "CommandEventHandler", NamedHandlerClass}

ClassTables == UNION {[S -> TableEntries] : S \in SUBSET TableNames}

NoCreate == [event |-> "None", exc |-> "None", attachedBefore |-> << >>,
             handlersBefore |-> << >>, falsy |-> FALSE]

NoNotify == [event |-> "None", raised |-> FALSE, propagated |-> FALSE,
             log |-> << >>]

\* create_handler(event, handlers, classes)
CreateHandler(ev, classes) ==
    LET res == CreateHandlerResult(ev, classes)
        entry == ClassesGet(classes, ev)
    IN  /\ Len(handlers) < MaxHandlers
        /\ events' = [events EXCEPT ![ev] = AddHandler(@, res)]
        /\ handlers' = AddHandler(handlers, res)
        /\ lastCreate' = [event |-> ev, exc |-> res.exc,
                          attachedBefore |-> events[ev],
                          handlersBefore |-> handlers,
                          falsy |-> ~Truthy(entry[1]) \/ ~Truthy(entry[2])]
        /\ lastNotify' = NoNotify
        /\ UNCHANGED <<DEBUG, varsC, varsA, varsD>>

\* the host fires ev and calls the i-th attached handler's notify
Notify(ev, i, raises) ==
    LET out == NotifyOutcome(events[ev][i], raises, DEBUG)
    IN  /\ i \in 1..Len(events[ev])
        /\ lastNotify' = [event |-> ev, raised |-> out.raised,
                          propagated |-> out.propagated, log |-> out.log]
        /\ UNCHANGED <<DEBUG, handlers, events, lastCreate, varsC, varsA, varsD>>

-----------------------------------------------------------------------------
(* AppData (io.py) *)

DataKeys == {"k1", "k2"}

\* Python values of a flat settings mapping: the int 1, the str '1', True
PyValues == {"1", "'1'", "True"}

Mappings == UNION {[S -> PyValues] : S \in SUBSET DataKeys}

\* json.dump of one value: the text written for it
JsonDumpUnquoted(v) ==
    CASE v = "1" -> "1"
      [] v = "'1'" -> "1"
      [] v = "True" -> "true"

JsonDump(v) ==
    CASE v = "1" -> "1"
      [] v = "'1'" -> "\"1\""
      [] v = "True" -> "true"

\* json.load of one value's text
JsonLoad(t) ==
    CASE t = "1" -> "1"
      [] t = "\"1\"" -> "'1'"
      [] t = "true" -> "True"

\* CONFIGFILE, and a file a caller passes to loadfromfile
CONFIGFILE == "config.json"

Paths == {CONFIGFILE, "custom.json"}

NoFile == [exists |-> FALSE, text |-> << >>]

\* dict.update
UpdateKeepsOld(d, e) ==
    [k \in (DOMAIN d) \cup (DOMAIN e) |-> IF k \in DOMAIN d THEN d[k] ELSE e[k]]

Update(d, e) ==
    [k \in (DOMAIN d) \cup (DOMAIN e) |-> IF k \in DOMAIN e THEN e[k] ELSE d[k]]

\* AppData.save: the file written
Save(data) ==
    [exists |-> TRUE, text |-> [k \in DOMAIN data |-> JsonDump(data[k])]]

\* AppData.loadfromfile(file): the instance returned and the disk afterwards
LoadFromFile(defaults, disk, file) ==
    LET path == IF file = "None" THEN CONFIGFILE ELSE file
        ad == defaults
        disk1 == IF ~disk[path].exists
                    THEN [disk EXCEPT ![path] = Save(ad)] ELSE disk
        data == [k \in DOMAIN disk1[path].text |-> JsonLoad(disk1[path].text[k])]
    IN  [ad |-> [kind |-> "instance", data |-> Update(ad, data), file |-> path],
         disk |-> disk1]

\* Command.appdata of the base class, and an AppData class assigned to it
NoAppData == [kind |-> "None", data |-> << >>, file |-> "None"]

AppDataClass == [kind |-> "class", data |-> << >>, file |-> "None"]

\* bool(self.appdata): None is falsy, a class is truthy, an instance is a
\* dict and truthy when it holds a key
TruthyAppData(a) ==
    \/ a.kind = "class"
    \/ a.kind = "instance" /\ DOMAIN a.data # {}

\* m[k] = v
SetItem(k, v) ==
    /\ appdata' = [appdata EXCEPT !.data = Update(@, [x \in {k} |-> v])]
    /\ fresh' = FALSE
    /\ UNCHANGED <<defaultdata, files, loaded>>
    /\ UNCHANGED <<DEBUG, regH, lastNotify, varsC, varsD>>

\* del m[k]
DelItem(k) ==
    /\ k \in DOMAIN appdata.data
    /\ appdata' = [appdata EXCEPT
                      !.data = [x \in (DOMAIN @) \ {k} |-> @[x]]]
    /\ fresh' = FALSE
    /\ UNCHANGED <<defaultdata, files, loaded>>
    /\ UNCHANGED <<DEBUG, regH, lastNotify, varsC, varsD>>

\* m.save()
SaveData ==
    /\ files' = [files EXCEPT ![appdata.file] = Save(appdata.data)]
    /\ fresh' = TRUE
    /\ loaded' = NoAppData
    /\ UNCHANGED <<defaultdata, appdata>>
    /\ UNCHANGED <<DEBUG, regH, lastNotify, varsC, varsD>>

\* cls.loadfromfile(m.file)
LoadData ==
    LET res == LoadFromFile(defaultdata, files, appdata.file)
    IN  /\ loaded' = res.ad
        /\ files' = res.disk
        /\ UNCHANGED <<defaultdata, appdata, fresh>>
        /\ UNCHANGED <<DEBUG, regH, lastNotify, varsC, varsD>>

\* what a caller passes as file: a path, or nothing
FileArgs == Paths \cup {"None"}

\* cls.loadfromfile(file) by any caller; lastOp keeps the argument and the
\* disk the call found
LoadFile(file) ==
    LET res == LoadFromFile(defaultdata, files, file)
    IN  /\ loaded' = res.ad
        /\ files' = res.disk
        /\ lastOp' = [name |-> "loadfromfile", file |-> file, disk |-> files]
        /\ UNCHANGED <<defaultdata, appdata, fresh>>
        /\ UNCHANGED <<overrides, commandicons, app, _command_handlers,
                       local_handlers, cmdDefs, controls, command>>
        /\ UNCHANGED <<DEBUG, regH, lastNotify, varsD>>

-----------------------------------------------------------------------------
(* log *)

\* the most positional arguments a call of log is given
MaxArgs == 2

\* what a caller passes as sep: the strs ' ' and ', ', the int 1, None
Seps == {"' '", "', '", "1", "None"}

\* isinstance(v, str)
IsStr(v) == v \in {"'1'", "' '", "', '"}

\* the characters of a str
Chars(v) ==
    CASE v = "'1'" -> "1"
      [] v = "' '" -> " "
      [] v = "', '" -> ", "

\* str(v)
Str(v) == IF IsStr(v) THEN Chars(v) ELSE v

\* sep.join(map(str, args))
RECURSIVE Join(_, _)
Join(sep, args) ==
    IF args = << >> THEN ""
    ELSE IF Len(args) = 1 THEN Str(args[1])
    ELSE Str(args[1]) \o Chars(sep) \o Join(sep, Tail(args))

LogLevels == {"InfoLogLevel", "WarningLogLevel", "ErrorLogLevel"}

LogArgs == UNION {[1..n -> PyValues] : n \in 0..MaxArgs}

\* log(*args, sep, level, force_console): the exception it raises ("None"
\* when it raises nothing), what it prints and its calls of app.log
LogResult(args, sep, level, force_console, debug) ==
    IF ~IsStr(sep)
        THEN [exc |-> "TypeError: Invalid sep", printed |-> << >>,
              calls |-> << >>]
        ELSE [exc |-> "None", printed |-> <<Join(sep, args)>>,
              calls |-> LogForward(Join(sep, args), level, force_console,
                                   debug)]

\* a caller calls log; lastOp keeps the arguments and what the call did
Log(args, sep, level, force_console) ==
    LET res == LogResult(args, sep, level, force_console, DEBUG)
    IN  /\ lastOp' = [name |-> "log", args |-> args, sep |-> sep,
                      level |-> level, force_console |-> force_console,
                      exc |-> res.exc, printed |-> res.printed,
                      calls |-> res.calls]
        /\ UNCHANGED <<overrides, commandicons, app, _command_handlers,
                       local_handlers, cmdDefs, controls, command>>
        /\ UNCHANGED <<DEBUG, regH, lastNotify, varsA, varsD>>

-----------------------------------------------------------------------------
(* The host's user interface *)

\* self.id of the Command
CmdId == "cmdId"

\* another command, whose control is already in panel p1
OtherCmd == "otherCmd"

Panels == {<<"ws", "p1">>, <<"ws", "p2">>}

\* itemById: the index of the first item with the id, 0 for None
RECURSIVE IndexById(_, _, _)
IndexById(list, id, i) ==
    IF i > Len(list) THEN 0
    ELSE IF list[i].id = id THEN i
    ELSE IndexById(list, id, i + 1)

ItemById(list, id) == IndexById(list, id, 1)

\* deleteMe of the item at index i
RemoveAt(list, i) == SubSeq(list, 1, i - 1) \o SubSeq(list, i + 1, Len(list))

CountById(list, id) == Cardinality({i \in 1..Len(list) : list[i].id = id})

\* commandDefinitions.addButtonDefinition(id, name, description, icon_folder)
AddButtonDefinition(defs, id) ==
    Append(defs, [id |-> id, commandCreated |-> << >>])

\* controls.addCommand(cmd_def, command_beside, False): the new control goes
\* after the control named by command_beside, at the end when there is none;
\* the result is the list and the index of the new control
AddCommand(ctrls, id, beside) ==
    LET i == ItemById(ctrls, beside)
        new == [id |-> id, isPromoted |-> FALSE]
    IN  IF i = 0
            THEN [ctrls |-> Append(ctrls, new), at |-> Len(ctrls) + 1]
            ELSE [ctrls |-> SubSeq(ctrls, 1, i) \o <<new>>
                                \o SubSeq(ctrls, i + 1, Len(ctrls)),
                  at |-> i + 1]

-----------------------------------------------------------------------------
(* Command *)

CallbackNames ==
    {"command_created", "command_execute", "command_input_changed",
     "command_preview", "command_validate_input"}

\* self.<callback>: the subclass's method, or the base class's property,
\* which returns False
Attr(ov, callback) == IF callback \in ov THEN callback ELSE "False"

\* the classes table of Command._create_handler
CommandClasses(ov) ==
    [n \in {"CommandCreated", "OnDestroy", "OnExecute", "InputValueChanged",
            "OnExecutePreview", "AreInputsValid"} |->
        CASE n = "CommandCreated" ->
                <<"_command_created", "CommandCreatedEventHandler">>
          [] n = "OnDestroy" ->
                <<"command_destroy", "CommandEventHandler">>
          [] n = "OnExecute" ->
                <<Attr(ov, "command_execute"), "CommandEventHandler">>
          [] n = "InputValueChanged" ->
                <<Attr(ov, "command_input_changed"), "InputChangedEventHandler">>
          [] n = "OnExecutePreview" ->
                <<Attr(ov, "command_preview"), "CommandEventHandler">>
          [] n = "AreInputsValid" ->
                <<Attr(ov, "command_validate_input"), "ValidateInputsEventHandler">>]

\* start, lines 229-233: the command definitions after the lookup
StartDefsNoLookup(defs, id) == AddButtonDefinition(defs, id)

StartDefs(defs, id) ==
    IF ItemById(defs, id) = 0 THEN AddButtonDefinition(defs, id) ELSE defs

\* start, lines 245-254: one placement's control
PlaceControlNotPromoted(ctrls, id, placement) ==
    LET key == <<placement.workspace, placement.panel>>
        added == AddCommand(ctrls[key], id, placement.command_beside)
    IN  [ctrls EXCEPT ![key] = added.ctrls]

PlaceControl(ctrls, id, placement) ==
    LET key == <<placement.workspace, placement.panel>>
        added == AddCommand(ctrls[key], id, placement.command_beside)
    IN  [ctrls EXCEPT ![key] =
            [added.ctrls EXCEPT ![added.at].isPromoted = placement.is_promoted]]

\* start, lines 242-254: the loop over self.commandicons, until addCommand
\* raises.  dupFails: the host refuses a second control of the same command
\* in one panel
RECURSIVE StartControls(_, _, _, _)
StartControls(ctrls, icons, id, dupFails) ==
    IF icons = << >> THEN [ctrls |-> ctrls, exc |-> "None"]
    ELSE IF dupFails
            /\ ItemById(ctrls[<<Head(icons).workspace, Head(icons).panel>>],
                        id) # 0
        THEN [ctrls |-> ctrls, exc |-> "RuntimeError"]
    ELSE StartControls(PlaceControl(ctrls, id, Head(icons)), Tail(icons), id,
                       dupFails)

\* start, line 238: whether the handler and the placements are set up
StartPlaces(ov) == Truthy(Attr(ov, "command_created"))

\* stop, lines 266-272: the loop over self.commandicons
RECURSIVE StopControls(_, _, _)
StopControls(ctrls, icons, id) ==
    IF icons = << >> THEN ctrls
    ELSE LET key == <<Head(icons).workspace, Head(icons).panel>>
             i == ItemById(ctrls[key], id)
             next == IF i = 0 THEN ctrls
                     ELSE [ctrls EXCEPT ![key] = RemoveAt(@, i)]
         IN  StopControls(next, Tail(icons), id)

\* stop, lines 274-277
StopDefs(defs, id) ==
    LET i == ItemById(defs, id)
    IN  IF i = 0 THEN defs ELSE RemoveAt(defs, i)

\* stop, lines 288-293: the handlers made by create_handler have no
\* deleteMe, and both lists are replaced by empty ones
StopHandlers(list) == << >>

CommandEventNames ==
    {"OnDestroy", "OnExecute", "InputValueChanged", "OnExecutePreview",
     "AreInputsValid"}

OptionalEvents ==
    [OnExecute |-> "command_execute",
     InputValueChanged |-> "command_input_changed",
     OnExecutePreview |-> "command_preview",
     AreInputsValid |-> "command_validate_input"]

NoCommand == [alive |-> FALSE, events |-> [e \in CommandEventNames |-> << >>]]

NewCommand == [alive |-> TRUE, events |-> [e \in CommandEventNames |-> << >>]]

\* _command_created, lines 308-316: the events it calls _create_handler for
CreatedSetupUnguarded(ov) ==
    <<"OnDestroy", "OnExecute", "InputValueChanged", "OnExecutePreview",
      "AreInputsValid">>

CreatedSetup(ov) ==
    <<"OnDestroy">>
    \o (IF Truthy(Attr(ov, "command_execute")) THEN <<"OnExecute">> ELSE << >>)
    \o (IF Truthy(Attr(ov, "command_input_changed"))
            THEN <<"InputValueChanged">> ELSE << >>)
    \o (IF Truthy(Attr(ov, "command_preview"))
            THEN <<"OnExecutePreview">> ELSE << >>)
    \o (IF Truthy(Attr(ov, "command_validate_input"))
            THEN <<"AreInputsValid">> ELSE << >>)

\* _create_handler(command.<event>) for each name in turn, until one raises.
\* st: [local: self.local_handlers, events: the command's events, exc]
RECURSIVE SetupHandlers(_, _, _)
SetupHandlers(names, classes, st) ==
    IF names = << >> THEN st
    ELSE LET res == CreateHandlerResult(Head(names), classes)
         IN  IF res.exc # "None" THEN [st EXCEPT !.exc = res.exc]
             ELSE SetupHandlers(Tail(names), classes,
                     [local |-> Append(st.local, res.handler),
                      events |-> [st.events EXCEPT
                                     ![Head(names)] = Append(@, res.handler)],
                      exc |-> "None"])

\* _command_created(args); raises: the subclass's command_created raised
CommandCreatedCallback(st, ov, raises) ==
    IF raises THEN [st EXCEPT !.exc = "Exception"]
    ELSE SetupHandlers(CreatedSetup(ov), CommandClasses(ov),
                       [st EXCEPT !.exc = "None"])

\* the host calls notify of every handler attached to commandCreated
RECURSIVE NotifyCreated(_, _, _, _)
NotifyCreated(hs, st, ov, raises) ==
    IF hs = << >> THEN st
    ELSE NotifyCreated(Tail(hs), CommandCreatedCallback(st, ov, raises),
                       ov, raises)

Placements ==
    {[workspace |-> "ws", panel |-> "p1", command_beside |-> OtherCmd,
      is_promoted |-> b] : b \in BOOLEAN}
    \cup
    {[workspace |-> "ws", panel |-> "p2", command_beside |-> "None",
      is_promoted |-> FALSE]}

PlacementLists == UNION {[1..n -> Placements] : n \in 0..MaxPlacements}

NoOp == [name |-> "None", heldBefore |-> FALSE, startedBefore |-> FALSE,
         added |-> FALSE, userRaised |-> FALSE]

\* Command.start()
Start(dupFails) ==
    LET defs1 == StartDefs(cmdDefs, CmdId)
        i == ItemById(defs1, CmdId)
        res == CreateHandlerResult("CommandCreated", CommandClasses(overrides))
        placed == StartControls(controls, commandicons, CmdId, dupFails)
        raised == StartPlaces(overrides)
                    /\ (res.exc # "None" \/ placed.exc # "None")
        ld == LoadFromFile(defaultdata, files, "None")
    IN  /\ Len(_command_handlers) < MaxStarts
        /\ \A p \in Panels : CountById(controls[p], CmdId) < MaxControls
        /\ app' = "app"
        /\ IF StartPlaces(overrides) /\ res.exc = "None"
              THEN /\ cmdDefs' = [defs1 EXCEPT
                                    ![i].commandCreated = AddHandler(@, res)]
                   /\ _command_handlers' = AddHandler(_command_handlers, res)
                   /\ controls' = placed.ctrls
              ELSE /\ cmdDefs' = defs1
                   /\ UNCHANGED <<_command_handlers, controls>>
        /\ IF ~raised /\ TruthyAppData(appdata)
              THEN appdata' = ld.ad /\ files' = ld.disk
              ELSE UNCHANGED <<appdata, files>>
        /\ lastOp' = [name |-> IF raised THEN "start raised" ELSE "start",
                      heldBefore |-> ItemById(cmdDefs, CmdId) # 0,
                      startedBefore |-> app # "None",
                      added |-> Len(defs1) > Len(cmdDefs),
                      userRaised |-> FALSE]
        /\ lastNotify' = NoNotify
        /\ UNCHANGED <<overrides, commandicons, local_handlers, command>>
        /\ UNCHANGED <<DEBUG, regH, defaultdata, loaded, fresh, varsD>>

\* Command.stop().  self.appdata.save() on the AppData class itself (stop
\* without a start) raises TypeError: save is an instance method
Stop ==
    LET raised == appdata.kind = "class"
    IN  /\ controls' = StopControls(controls, commandicons, CmdId)
        /\ cmdDefs' = StopDefs(cmdDefs, CmdId)
        /\ app' = "None"
        /\ IF appdata.kind = "instance" /\ TruthyAppData(appdata)
              THEN /\ files' = [files EXCEPT
                                  ![appdata.file] = Save(appdata.data)]
                   /\ fresh' = TRUE
              ELSE UNCHANGED <<files, fresh>>
        /\ IF raised
              THEN UNCHANGED <<local_handlers, _command_handlers>>
              ELSE /\ local_handlers' = StopHandlers(local_handlers)
                   /\ _command_handlers' = StopHandlers(_command_handlers)
        /\ lastOp' = [NoOp EXCEPT !.name = IF raised THEN "stop raised"
                                                     ELSE "stop",
                                  !.heldBefore = ItemById(cmdDefs, CmdId) # 0,
                                  !.startedBefore = app # "None"]
        /\ lastNotify' = NoNotify
        /\ UNCHANGED <<overrides, commandicons, command>>
        /\ UNCHANGED <<DEBUG, regH, defaultdata, appdata, loaded, varsD>>

\* the host creates a command from the definition and fires commandCreated
CommandCreatedEvent(raises) ==
    LET i == ItemById(cmdDefs, CmdId)
        hs == cmdDefs[i].commandCreated
        st == NotifyCreated(hs,
                 [local |-> local_handlers, events |-> NewCommand.events,
                  exc |-> "None"],
                 overrides, raises)
        out == NotifyOutcome(hs[Len(hs)], st.exc # "None", DEBUG)
    IN  /\ i # 0
        /\ hs # << >>
        /\ Len(local_handlers) < MaxLocal
        /\ local_handlers' = st.local
        /\ command' = [alive |-> TRUE, events |-> st.events]
        /\ lastNotify' = [event |-> "CommandCreated", raised |-> out.raised,
                          propagated |-> out.propagated, log |-> out.log]
        /\ lastOp' = [NoOp EXCEPT !.name = "created", !.userRaised = raises]
        /\ UNCHANGED <<overrides, commandicons, app, _command_handlers,
                       cmdDefs, controls>>
        /\ UNCHANGED <<DEBUG, regH, varsA, varsD>>

\* the host fires execute, inputChanged, executePreview or validateInputs of
\* the created command
CommandEvent(e, raises) ==
    LET hs == command.events[e]
        out == NotifyOutcome(hs[Len(hs)], raises, DEBUG)
    IN  /\ command.alive
        /\ hs # << >>
        /\ lastNotify' = [event |-> e, raised |-> out.raised,
                          propagated |-> out.propagated, log |-> out.log]
        /\ lastOp' = [NoOp EXCEPT !.name = "event", !.userRaised = raises]
        /\ UNCHANGED <<overrides, commandicons, app, _command_handlers,
                       local_handlers, cmdDefs, controls, command>>
        /\ UNCHANGED <<DEBUG, regH, varsA, varsD>>

\* command_destroy(args): what it leaves in self.local_handlers
CommandDestroyKeepsHandlers(local) == local

CommandDestroy(local) == << >>

\* the host fires destroy of the created command: command_destroy
DestroyEvent ==
    LET hs == command.events["OnDestroy"]
    IN  /\ command.alive
        /\ local_handlers' = IF hs = << >> THEN local_handlers
                              ELSE CommandDestroy(local_handlers)
        /\ command' = NoCommand
        /\ lastNotify' = IF hs = << >> THEN lastNotify
                         ELSE [NoNotify EXCEPT !.event = "OnDestroy"]
        /\ lastOp' = [NoOp EXCEPT !.name = "destroy"]
        /\ UNCHANGED <<overrides, commandicons, app, _command_handlers,
                       cmdDefs, controls>>
        /\ UNCHANGED <<DEBUG, regH, varsA, varsD>>

\* the subclass's code changes a setting: self.appdata[k] = v
ChangeSetting(k, v) ==
    /\ appdata.kind = "instance"
    /\ appdata' = [appdata EXCEPT !.data = Update(@, [x \in {k} |-> v])]
    /\ fresh' = FALSE
    /\ lastOp' = [NoOp EXCEPT !.name = "setting"]
    /\ UNCHANGED <<overrides, commandicons, app, _command_handlers,
                   local_handlers, cmdDefs, controls, command>>
    /\ UNCHANGED <<DEBUG, regH, lastNotify, defaultdata, files, loaded, varsD>>

\* the subclass's code removes a setting: del self.appdata[k]
RemoveSetting(k) ==
    /\ appdata.kind = "instance"
    /\ k \in DOMAIN appdata.data
    /\ appdata' = [appdata EXCEPT
                      !.data = [x \in (DOMAIN @) \ {k} |-> @[x]]]
    /\ fresh' = FALSE
    /\ lastOp' = [NoOp EXCEPT !.name = "setting"]
    /\ UNCHANGED <<overrides, commandicons, app, _command_handlers,
                   local_handlers, cmdDefs, controls, command>>
    /\ UNCHANGED <<DEBUG, regH, lastNotify, defaultdata, files, loaded, varsD>>

-----------------------------------------------------------------------------
(* function_to_command *)

\* the longest handlers list function_to_command and its commands build
MaxFnHandlers == 4

\* what a caller passes as callback: two functions, and None
FnCallbacks == {"cbA", "cbB", "None"}

\* the ids a caller passes as commandid
FnIds == {CmdId, OtherCmd}

\* the lambda of the CommandCreated entry; it closes over the classes
\* table, and so over the callback of the OnExecute entry
Lambda(callback) == "lambda " \o callback

LambdaCallback(l) == CHOOSE cb \in FnCallbacks : Lambda(cb) = l

\* the classes table
FunctionClasses(callback) ==
    [CommandCreated |-> <<Lambda(callback), "CommandCreatedEventHandler">>,
     OnExecute |-> <<callback, "CommandEventHandler">>]

\* prevcommand = itemById(commandid); if prevcommand: prevcommand.deleteMe()
DeletePreviousSkipped(defs, id) == defs

DeletePrevious(defs, id) ==
    LET i == ItemById(defs, id)
    IN  IF i # 0 THEN RemoveAt(defs, i) ELSE defs

\* the operations of this part leave in lastOp the arguments they ran with
FnOp(name, commandid, callback) ==
    [name |-> name, commandid |-> commandid, callback |-> callback]

\* function_to_command(callback, commandid, handlers)
FunctionToCommand(callback, commandid) ==
    LET defs1 == AddButtonDefinition(DeletePrevious(cmdDefs, commandid),
                                     commandid)
        res == CreateHandlerResult("CommandCreated", FunctionClasses(callback))
    IN  /\ Len(handlers) < MaxFnHandlers
        /\ cmdDefs' = [defs1 EXCEPT
                         ![Len(defs1)].commandCreated = AddHandler(@, res)]
        /\ handlers' = AddHandler(handlers, res)
        /\ lastCreate' = [event |-> "CommandCreated", exc |-> res.exc,
                          attachedBefore |-> << >>,
                          handlersBefore |-> handlers, falsy |-> FALSE]
        /\ lastNotify' = NoNotify
        /\ lastOp' = FnOp("function_to_command", commandid, callback)
        /\ UNCHANGED <<overrides, commandicons, app, _command_handlers,
                       local_handlers, controls, command>>
        /\ UNCHANGED <<DEBUG, events, varsA, varsD>>

\* the host calls notify of every handler attached to commandCreated: each
\* runs the lambda, create_handler(args.command.execute, handlers, classes).
\* st: [handlers: the caller's list, execute: the command's execute event,
\* exc: what the last lambda raised]
RECURSIVE FnNotifyCreated(_, _)
FnNotifyCreated(hs, st) ==
    IF hs = << >> THEN st
    ELSE LET res == CreateHandlerResult("OnExecute",
                       FunctionClasses(LambdaCallback(Head(hs).callback)))
         IN  FnNotifyCreated(Tail(hs),
                [handlers |-> AddHandler(st.handlers, res),
                 execute |-> AddHandler(st.execute, res),
                 exc |-> res.exc])

\* the host creates a command from the definition with the id and fires
\* commandCreated
FnCommandCreated(commandid) ==
    LET i == ItemById(cmdDefs, commandid)
        hs == cmdDefs[i].commandCreated
        st == FnNotifyCreated(hs, [handlers |-> handlers, execute |-> << >>,
                                   exc |-> "None"])
        out == NotifyOutcome(hs[Len(hs)], st.exc # "None", DEBUG)
    IN  /\ i # 0
        /\ hs # << >>
        /\ Len(handlers) < MaxFnHandlers
        /\ handlers' = st.handlers
        /\ command' = [alive |-> TRUE,
                       events |-> [NewCommand.events EXCEPT
                                      !["OnExecute"] = st.execute]]
        /\ lastCreate' = [event |-> "OnExecute", exc |-> st.exc,
                          attachedBefore |-> << >>,
                          handlersBefore |-> handlers,
                          falsy |-> st.exc # "None"]
        /\ lastNotify' = [event |-> "CommandCreated", raised |-> out.raised,
                          propagated |-> out.propagated, log |-> out.log]
        /\ lastOp' = FnOp("commandCreated", commandid,
                          LambdaCallback(hs[Len(hs)].callback))
        /\ UNCHANGED <<overrides, commandicons, app, _command_handlers,
                       local_handlers, cmdDefs, controls>>
        /\ UNCHANGED <<DEBUG, events, varsA, varsD>>

-----------------------------------------------------------------------------
(* DirectModelMode and the directmodelmode decorator *)

\* the active document's design, and another design a caller may pass
Designs == {"active", "other"}

Direct == "DirectDesignType"

Parametric == "ParametricDesignType"

\* the design __init__ looks at: getActiveDoc().design when none is given
TargetDesign(design) == IF design = "None" THEN "active" ELSE design

\* DirectModelMode.__init__: self.design
InitDesignNoCheck(design, types) == TargetDesign(design)

InitDesign(design, types) ==
    IF types[TargetDesign(design)] = Direct THEN "None"
    ELSE TargetDesign(design)

\* DirectModelMode.__enter__: the design types afterwards
Enter(selfDesign, types) ==
    IF Truthy(selfDesign) THEN [types EXCEPT ![selfDesign] = Direct]
    ELSE types

\* DirectModelMode.__exit__: the design types afterwards
ExitNoRestore(selfDesign, types) == types

Exit(selfDesign, types) ==
    IF Truthy(selfDesign) THEN [types EXCEPT ![selfDesign] = Parametric]
    ELSE types

\* __exit__ returns None, so the with statement re-raises the body's exception
ExitSuppresses == FALSE

\* what leaves the with statement: the body's return value, or its exception
WithOutcome(bodyOutcome) ==
    IF bodyOutcome.kind = "raised" /\ ExitSuppresses
        THEN [kind |-> "returned", value |-> "None"]
        ELSE bodyOutcome

BodyOutcomes ==
    {[kind |-> "returned", value |-> v] : v \in {"r1", "r2"}}
    \cup {[kind |-> "raised", value |-> "exc"]}

NoExit == [target |-> "None", atInit |-> "None", after |-> "None",
           wrote |-> FALSE, decorated |-> FALSE, outer |-> 0,
           body |-> [kind |-> "None", value |-> "None"],
           out |-> [kind |-> "None", value |-> "None"]]

\* with DirectModelMode(design): __init__ and __enter__.  decorated: the
\* with statement of directmodelmode's inner, which passes no design
With(design, decorated) ==
    LET selfDesign == InitDesign(design, designType)
    IN  /\ Len(stack) < MaxDepth
        /\ decorated => design = "None"
        /\ designType' = Enter(selfDesign, designType)
        /\ stack' = Append(stack,
                        [design |-> selfDesign,
                         target |-> TargetDesign(design),
                         atInit |-> designType[TargetDesign(design)],
                         wrote |-> Truthy(selfDesign),
                         decorated |-> decorated])
        /\ UNCHANGED lastExit
        /\ UNCHANGED <<DEBUG, regH, lastNotify, varsC, varsA>>

\* the body of the innermost with-block returns or raises: __exit__
Leave(bodyOutcome) ==
    LET top == stack[Len(stack)]
        rest == SubSeq(stack, 1, Len(stack) - 1)
    IN  /\ stack # << >>
        /\ designType' = Exit(top.design, designType)
        /\ stack' = rest
        /\ lastExit' =
              [target |-> top.target, atInit |-> top.atInit,
               after |-> designType'[top.target],
               wrote |-> top.wrote \/ Truthy(top.design),
               decorated |-> top.decorated,
               outer |-> Cardinality({i \in 1..Len(rest) :
                                        rest[i].target = top.target}),
               body |-> bodyOutcome, out |-> WithOutcome(bodyOutcome)]
        /\ UNCHANGED <<DEBUG, regH, lastNotify, varsC, varsA>>

-----------------------------------------------------------------------------
(* Specifications *)

\* a Command object driven by the add-in (start, stop) and by the host
Init ==
    /\ DEBUG = FALSE
    /\ handlers = << >>
    /\ events = [e \in RegistryEvents |-> << >>]
    /\ lastCreate = NoCreate
    /\ lastNotify = NoNotify
    /\ overrides \in SUBSET CallbackNames
    /\ commandicons \in PlacementLists
    /\ app = "None"
    /\ _command_handlers = << >>
    /\ local_handlers = << >>
    /\ cmdDefs \in {<< >>, AddButtonDefinition(<< >>, CmdId)}
    /\ controls = [p \in Panels |->
                     IF p = <<"ws", "p1">>
                        THEN <<[id |-> OtherCmd, isPromoted |-> TRUE]>>
                        ELSE << >>]
    /\ command = NoCommand
    /\ lastOp = NoOp
    /\ defaultdata = << >>
    /\ files = [p \in Paths |-> NoFile]
    /\ appdata = NoAppData
    /\ loaded = NoAppData
    /\ fresh = FALSE
    /\ designType = [d \in Designs |-> Parametric]
    /\ stack = << >>
    /\ lastExit = NoExit

Next ==
    \/ \E dupFails \in BOOLEAN : Start(dupFails)
    \/ Stop
    \/ \E raises \in BOOLEAN : CommandCreatedEvent(raises)
    \/ \E e \in DOMAIN OptionalEvents, raises \in BOOLEAN : CommandEvent(e, raises)
    \/ DestroyEvent

Spec == Init /\ [][Next]_vars

\* the handler registry used by an arbitrary caller
InitRegistry ==
    /\ DEBUG \in BOOLEAN
    /\ handlers = << >>
    /\ events = [e \in RegistryEvents |-> << >>]
    /\ lastCreate = NoCreate
    /\ lastNotify = NoNotify
    /\ overrides = {}
    /\ commandicons = << >>
    /\ app = "None"
    /\ _command_handlers = << >>
    /\ local_handlers = << >>
    /\ cmdDefs = << >>
    /\ controls = [p \in Panels |-> << >>]
    /\ command = NoCommand
    /\ lastOp = NoOp
    /\ defaultdata = << >>
    /\ files = [p \in Paths |-> NoFile]
    /\ appdata = NoAppData
    /\ loaded = NoAppData
    /\ fresh = FALSE
    /\ designType = [d \in Designs |-> Parametric]
    /\ stack = << >>
    /\ lastExit = NoExit

NextRegistry ==
    \/ \E ev \in RegistryEvents, classes \in ClassTables : CreateHandler(ev, classes)
    \/ \E ev \in RegistryEvents, i \in 1..MaxHandlers, raises \in BOOLEAN :
          Notify(ev, i, raises)

SpecRegistry == InitRegistry /\ [][NextRegistry]_vars

\* an AppData instance and its file
InitData ==
    /\ DEBUG = FALSE
    /\ handlers = << >>
    /\ events = [e \in RegistryEvents |-> << >>]
    /\ lastCreate = NoCreate
    /\ lastNotify = NoNotify
    /\ overrides = {}
    /\ commandicons = << >>
    /\ app = "None"
    /\ _command_handlers = << >>
    /\ local_handlers = << >>
    /\ cmdDefs = << >>
    /\ controls = [p \in Panels |-> << >>]
    /\ command = NoCommand
    /\ lastOp = NoOp
    /\ defaultdata \in {d \in Mappings : DOMAIN d \subseteq {"k1"}}
    /\ \E f \in {NoFile} \cup {Save(d) : d \in Mappings} :
          LET res == LoadFromFile(defaultdata,
                        [p \in Paths |-> IF p = CONFIGFILE THEN f ELSE NoFile],
                        "None")
          IN  appdata = res.ad /\ files = res.disk
    /\ loaded = NoAppData
    /\ fresh = FALSE
    /\ designType = [d \in Designs |-> Parametric]
    /\ stack = << >>
    /\ lastExit = NoExit

NextData ==
    \/ \E k \in DataKeys, v \in PyValues : SetItem(k, v)
    \/ \E k \in DataKeys : DelItem(k)
    \/ SaveData
    \/ LoadData

SpecData == InitData /\ [][NextData]_vars

\* a caller of function_to_command and the host firing the events of the
\* commands it made; the host may already hold a definition with the id
InitFunction ==
    /\ DEBUG \in BOOLEAN
    /\ handlers = << >>
    /\ events = [e \in RegistryEvents |-> << >>]
    /\ lastCreate = NoCreate
    /\ lastNotify = NoNotify
    /\ overrides = {}
    /\ commandicons = << >>
    /\ app = "None"
    /\ _command_handlers = << >>
    /\ local_handlers = << >>
    /\ cmdDefs \in {<< >>, <<[id |-> CmdId, commandCreated |-> << >>]>>}
    /\ controls = [p \in Panels |-> << >>]
    /\ command = NoCommand
    /\ lastOp = NoOp
    /\ defaultdata = << >>
    /\ files = [p \in Paths |-> NoFile]
    /\ appdata = NoAppData
    /\ loaded = NoAppData
    /\ fresh = FALSE
    /\ designType = [d \in Designs |-> Parametric]
    /\ stack = << >>
    /\ lastExit = NoExit

NextFunction ==
    \/ \E callback \in FnCallbacks, commandid \in FnIds :
          FunctionToCommand(callback, commandid)
    \/ \E commandid \in FnIds : FnCommandCreated(commandid)
    \/ \E raises \in BOOLEAN : CommandEvent("OnExecute", raises)

SpecFunction == InitFunction /\ [][NextFunction]_vars

\* loadfromfile of an AppData class with any default data, on a disk where
\* each file is missing or was written by save()
InitLoad ==
    /\ DEBUG = FALSE
    /\ handlers = << >>
    /\ events = [e \in RegistryEvents |-> << >>]
    /\ lastCreate = NoCreate
    /\ lastNotify = NoNotify
    /\ overrides = {}
    /\ commandicons = << >>
    /\ app = "None"
    /\ _command_handlers = << >>
    /\ local_handlers = << >>
    /\ cmdDefs = << >>
    /\ controls = [p \in Panels |-> << >>]
    /\ command = NoCommand
    /\ lastOp = NoOp
    /\ defaultdata \in Mappings
    /\ files \in [Paths -> {NoFile} \cup {Save(d) : d \in Mappings}]
    /\ appdata = NoAppData
    /\ loaded = NoAppData
    /\ fresh = FALSE
    /\ designType = [d \in Designs |-> Parametric]
    /\ stack = << >>
    /\ lastExit = NoExit

NextLoad == \E file \in FileArgs : LoadFile(file)

SpecLoad == InitLoad /\ [][NextLoad]_vars

\* a Command subclass that assigns an AppData class to appdata; the config
\* file is missing or was written by save()
InitSettings ==
    /\ DEBUG = FALSE
    /\ handlers = << >>
    /\ events = [e \in RegistryEvents |-> << >>]
    /\ lastCreate = NoCreate
    /\ lastNotify = NoNotify
    /\ overrides \in {{}, {"command_created"}}
    /\ commandicons = << >>
    /\ app = "None"
    /\ _command_handlers = << >>
    /\ local_handlers = << >>
    /\ cmdDefs = << >>
    /\ controls = [p \in Panels |-> << >>]
    /\ command = NoCommand
    /\ lastOp = NoOp
    /\ defaultdata \in {d \in Mappings : DOMAIN d \subseteq {"k1"}}
    /\ \E f \in {NoFile} \cup {Save(d) : d \in Mappings} :
          files = [p \in Paths |-> IF p = CONFIGFILE THEN f ELSE NoFile]
    /\ appdata = AppDataClass
    /\ loaded = NoAppData
    /\ fresh = FALSE
    /\ designType = [d \in Designs |-> Parametric]
    /\ stack = << >>
    /\ lastExit = NoExit

NextSettings ==
    \/ \E dupFails \in BOOLEAN : Start(dupFails)
    \/ Stop
    \/ \E k \in DataKeys, v \in PyValues : ChangeSetting(k, v)
    \/ \E k \in DataKeys : RemoveSetting(k)
    \/ \E raises \in BOOLEAN : CommandCreatedEvent(raises)

SpecSettings == InitSettings /\ [][NextSettings]_vars

\* callers of log, with config.DEBUG set or not
InitLog ==
    /\ DEBUG \in BOOLEAN
    /\ handlers = << >>
    /\ events = [e \in RegistryEvents |-> << >>]
    /\ lastCreate = NoCreate
    /\ lastNotify = NoNotify
    /\ overrides = {}
    /\ commandicons = << >>
    /\ app = "None"
    /\ _command_handlers = << >>
    /\ local_handlers = << >>
    /\ cmdDefs = << >>
    /\ controls = [p \in Panels |-> << >>]
    /\ command = NoCommand
    /\ lastOp = NoOp
    /\ defaultdata = << >>
    /\ files = [p \in Paths |-> NoFile]
    /\ appdata = NoAppData
    /\ loaded = NoAppData
    /\ fresh = FALSE
    /\ designType = [d \in Designs |-> Parametric]
    /\ stack = << >>
    /\ lastExit = NoExit

NextLog ==
    \E args \in LogArgs, sep \in Seps, level \in LogLevels,
       force_console \in BOOLEAN : Log(args, sep, level, force_console)

SpecLog == InitLog /\ [][NextLog]_vars

\* with-blocks and decorated calls on the host's designs
InitDesigns ==
    /\ DEBUG = FALSE
    /\ handlers = << >>
    /\ events = [e \in RegistryEvents |-> << >>]
    /\ lastCreate = NoCreate
    /\ lastNotify = NoNotify
    /\ overrides = {}
    /\ commandicons = << >>
    /\ app = "None"
    /\ _command_handlers = << >>
    /\ local_handlers = << >>
    /\ cmdDefs = << >>
    /\ controls = [p \in Panels |-> << >>]
    /\ command = NoCommand
    /\ lastOp = NoOp
    /\ defaultdata = << >>
    /\ files = [p \in Paths |-> NoFile]
    /\ appdata = NoAppData
    /\ loaded = NoAppData
    /\ fresh = FALSE
    /\ designType \in [Designs -> {Direct, Parametric}]
    /\ stack = << >>
    /\ lastExit = NoExit

NextDesigns ==
    \/ \E design \in Designs \cup {"None"} : With(design, FALSE)
    \/ With("None", TRUE)
    \/ \E bodyOutcome \in BodyOutcomes : Leave(bodyOutcome)

SpecDesigns == InitDesigns /\ [][NextDesigns]_vars

-----------------------------------------------------------------------------
(* Properties of the handler registry (SpecRegistry) *)

TypeErrors == {"TypeError: Invalid command", "TypeError: Callback not defined"}

\* C1: create_handler called for an event whose name has no entry in the
\* classes table, or whose entry has a falsy handler class or a falsy
\* callback, raises TypeError; the event's attached handlers and the handlers
\* list are what they were before the call; and no handler with a falsy
\* callback or class is ever attached, so no event reaches one.
C1_MisconfigurationFailsAtRegistration ==
    /\ (lastCreate.event # "None" /\ lastCreate.falsy) =>
          /\ lastCreate.exc \in TypeErrors
          /\ events[lastCreate.event] = lastCreate.attachedBefore
          /\ handlers = lastCreate.handlersBefore
    /\ \A e \in RegistryEvents : \A i \in 1..Len(events[e]) :
          Truthy(events[e][i].callback) /\ Truthy(events[e][i].cls)

\* a call with a class but a falsy callback failed, after an earlier call
\* had attached a handler
C1_Witness ==
    /\ lastCreate.falsy
    /\ lastCreate.exc = "TypeError: Callback not defined"
    /\ lastCreate.handlersBefore # << >>
    /\ lastCreate.attachedBefore # << >>

\* C2: whenever the host invokes notify of a handler made by create_handler
\* and the callback raises, the failure is logged at error severity with its
\* stack trace and no exception leaves notify.
C2_CallbackFailureLoggedNotPropagated ==
    lastNotify.raised =>
        /\ ~lastNotify.propagated
        /\ \E i \in 1..Len(lastNotify.log) :
              /\ lastNotify.log[i].level = "ErrorLogLevel"
              /\ lastNotify.log[i].message = ErrorMessage

-----------------------------------------------------------------------------
(* Properties of the Command lifecycle (Spec) *)

PanelOf(placement) == <<placement.workspace, placement.panel>>

\* C3: after any sequence of start() and stop() the host holds at most one
\* command definition with the Command's id, and start() calls
\* addButtonDefinition only when the host holds no definition with that id.
C3_StartDoesNotDuplicateDefinition ==
    /\ CountById(cmdDefs, CmdId) <= 1
    /\ lastOp.added => ~lastOp.heldBefore

\* a second start() on a started Command found the definition and added none
C3_Witness ==
    /\ lastOp.name = "start"
    /\ lastOp.startedBefore
    /\ lastOp.heldBefore
    /\ ~lastOp.added
    /\ CountById(cmdDefs, CmdId) = 1

C5_RestartIsIdempotent ==
    [][(lastOp'.name = "start" /\ app # "None"
            /\ ItemById(cmdDefs, CmdId) # 0) =>
          /\ [i \in 1..Len(cmdDefs') |-> cmdDefs'[i].id]
                = [i \in 1..Len(cmdDefs) |-> cmdDefs[i].id]
          /\ controls' = controls
          /\ _command_handlers' = _command_handlers]_vars

\* the controls the placements ask for are in their panels
PlacementsPlaced ==
    \A i \in 1..Len(commandicons) :
        \E j \in 1..Len(controls[PanelOf(commandicons[i])]) :
            /\ controls[PanelOf(commandicons[i])][j].id = CmdId
            /\ controls[PanelOf(commandicons[i])][j].isPromoted
                  = commandicons[i].is_promoted

\* C6: after start() returns on a Command with a non-empty commandicons
\* list, the host holds a definition with the Command's id and every
\* placement's panel holds a control of it with the placement's is_promoted.
C6_StartPlacesEveryIcon ==
    (lastOp.name = "start" /\ commandicons # << >>) =>
        /\ ItemById(cmdDefs, CmdId) # 0
        /\ PlacementsPlaced

\* C6, amended: the same, for a Command subclass that overrides
\* command_created.
C6_StartPlacesEveryIconOfDialogCommand ==
    (lastOp.name = "start" /\ commandicons # << >>
        /\ "command_created" \in overrides) =>
        /\ ItemById(cmdDefs, CmdId) # 0
        /\ PlacementsPlaced

\* start() placed two icons with different is_promoted flags
C6_Witness ==
    /\ lastOp.name = "start"
    /\ "command_created" \in overrides
    /\ Len(commandicons) = 2
    /\ commandicons[1].is_promoted # commandicons[2].is_promoted
    /\ PlacementsPlaced

\* the handlers of the created command are those _command_created promises
HandlersSetUp ==
    /\ command.events["OnDestroy"] # << >>
    /\ \A e \in DOMAIN OptionalEvents :
          (command.events[e] # << >>) <=> (OptionalEvents[e] \in overrides)
    /\ ~lastNotify.raised
    /\ \A e \in CommandEventNames : \A i \in 1..Len(command.events[e]) :
          \E j \in 1..Len(local_handlers) :
              local_handlers[j] = command.events[e][i]

C11_DestroyCleansOnlyLocalHandlers ==
    [][(lastOp'.name = "destroy" /\ command.events["OnDestroy"] # << >>) =>
          /\ local_handlers' = << >>
          /\ _command_handlers' = _command_handlers
          /\ cmdDefs' = cmdDefs
          /\ controls' = controls
          /\ app' = app]_vars

\* the destroy event of a command of a started Command was handled: the
\* definition still holds its commandCreated handler, the control is still
\* placed
C11_Witness ==
    /\ lastOp.name = "destroy"
    /\ lastNotify.event = "OnDestroy"
    /\ local_handlers = << >>
    /\ _command_handlers # << >>
    /\ app # "None"
    /\ ItemById(cmdDefs, CmdId) # 0
    /\ cmdDefs[ItemById(cmdDefs, CmdId)].commandCreated # << >>
    /\ \E p \in Panels : CountById(controls[p], CmdId) > 0

-----------------------------------------------------------------------------
(* Properties of function_to_command (SpecFunction) *)

\* C12: after function_to_command(callback, commandid, handlers) returns,
\* the host holds exactly one command definition with commandid; exactly one
\* handler is attached to its commandCreated, the one made in this call, and
\* the caller's handlers list is what it was with that handler appended.
\* After a later firing of commandCreated of a definition made with a
\* callable callback, the execute event of the command holds exactly one
\* handler, whose callback is that callback, and the handlers list is what
\* it was with that handler appended.
C12_FunctionToCommandReplaces ==
    /\ lastOp.name = "function_to_command" =>
          LET i == ItemById(cmdDefs, lastOp.commandid)
          IN  /\ CountById(cmdDefs, lastOp.commandid) = 1
              /\ Len(cmdDefs[i].commandCreated) = 1
              /\ cmdDefs[i].commandCreated[1] =
                    [event |-> "CommandCreated",
                     callback |-> Lambda(lastOp.callback),
                     cls |-> "CommandCreatedEventHandler"]
              /\ handlers = Append(lastCreate.handlersBefore,
                                   cmdDefs[i].commandCreated[1])
    /\ (lastOp.name = "commandCreated" /\ Truthy(lastOp.callback)) =>
          LET i == ItemById(cmdDefs, lastOp.commandid)
          IN  /\ Len(command.events["OnExecute"]) = 1
              /\ Lambda(command.events["OnExecute"][1].callback)
                    = cmdDefs[i].commandCreated[1].callback
              /\ command.events["OnExecute"][1].cls = "CommandEventHandler"
              /\ handlers = Append(lastCreate.handlersBefore,
                                   command.events["OnExecute"][1])

\* function_to_command was called a second time with the same id and
\* another callback, and commandCreated of the new definition fired
C12_Witness ==
    /\ lastOp.name = "commandCreated"
    /\ lastOp.callback = "cbB"
    /\ Len(cmdDefs) = 1
    /\ Len(handlers) >= 3
    /\ handlers[1].callback = Lambda("cbA")
    /\ handlers[Len(handlers) - 1].callback = Lambda("cbB")
    /\ command.events["OnExecute"] # << >>

-----------------------------------------------------------------------------
(* Properties of AppData (SpecData) *)

\* C7: m.save() followed by loadfromfile on the same file returns a mapping
\* equal to m.
C7_SaveLoadRoundTrip ==
    (loaded.kind = "instance" /\ fresh) => loaded.data = appdata.data

\* C7, amended: m.save() followed by loadfromfile on the same file returns
\* defaultdata overlaid by m: every key of m with m's value, every default
\* key m lacks with its default value, and nothing else; so it equals m
\* when m holds every default key.
C7_SaveLoadReturnsDefaultsOverlaidByM ==
    (loaded.kind = "instance" /\ fresh) =>
        /\ DOMAIN loaded.data = (DOMAIN appdata.data) \cup (DOMAIN defaultdata)
        /\ \A k \in DOMAIN appdata.data : loaded.data[k] = appdata.data[k]
        /\ \A k \in (DOMAIN defaultdata) \ (DOMAIN appdata.data) :
              loaded.data[k] = defaultdata[k]
        /\ (DOMAIN defaultdata \subseteq DOMAIN appdata.data) =>
              loaded.data = appdata.data

\* a mapping holding a str, and lacking a default key, was saved and loaded
C7_Witness ==
    /\ loaded.kind = "instance"
    /\ fresh
    /\ "k1" \in DOMAIN defaultdata
    /\ DOMAIN appdata.data = {"k2"}
    /\ appdata.data["k2"] = "'1'"

\* C13: loadfromfile(file) returns an instance bound to the given file, to
\* CONFIGFILE when none is given.  When the file exists the call leaves the
\* disk as it was and the instance holds every key of the file with the
\* file's value and every other default key with its default value, and
\* nothing else.  When the file does not exist, the call creates it holding
\* exactly the default data, changes no other file, and the instance equals
\* the default data.
C13_LoadReturnsDefaultsOverlaidByFile ==
    lastOp.name = "loadfromfile" =>
        LET path == IF lastOp.file = "None" THEN CONFIGFILE ELSE lastOp.file
            before == lastOp.disk[path]
        IN  /\ loaded.kind = "instance"
            /\ loaded.file = path
            /\ files[path].exists
            /\ \A p \in Paths \ {path} : files[p] = lastOp.disk[p]
            /\ before.exists =>
                  /\ files[path] = before
                  /\ DOMAIN loaded.data
                        = (DOMAIN defaultdata) \cup (DOMAIN before.text)
                  /\ \A k \in DOMAIN before.text :
                        loaded.data[k] = JsonLoad(before.text[k])
                  /\ \A k \in (DOMAIN defaultdata) \ (DOMAIN before.text) :
                        loaded.data[k] = defaultdata[k]
            /\ ~before.exists =>
                  /\ DOMAIN files[path].text = DOMAIN defaultdata
                  /\ \A k \in DOMAIN defaultdata :
                        JsonLoad(files[path].text[k]) = defaultdata[k]
                  /\ loaded.data = defaultdata

\* a given file was loaded that holds another value for a default key and
\* lacks another default key
C13_Witness ==
    /\ lastOp.name = "loadfromfile"
    /\ lastOp.file = "custom.json"
    /\ lastOp.disk["custom.json"].exists
    /\ DOMAIN defaultdata = DataKeys
    /\ DOMAIN files["custom.json"].text = {"k1"}
    /\ loaded.data["k1"] # defaultdata["k1"]

\* no file was given, the config file did not exist and now holds the
\* default data
C13_WitnessCreated ==
    /\ lastOp.name = "loadfromfile"
    /\ lastOp.file = "None"
    /\ ~lastOp.disk[CONFIGFILE].exists
    /\ files[CONFIGFILE].exists
    /\ defaultdata # << >>

-----------------------------------------------------------------------------
(* Properties of a Command with settings (SpecSettings) *)

\* the mapping the JSON file at the path holds
FileMapping(path) ==
    [k \in DOMAIN files[path].text |-> JsonLoad(files[path].text[k])]

\* stop() of a Command that holds an AppData instance left the file of the
\* instance holding exactly the instance's mapping
StopSavedSettings ==
    (lastOp.name \in {"stop", "stop raised"} /\ appdata.kind = "instance") =>
        /\ files[appdata.file].exists
        /\ FileMapping(appdata.file) = appdata.data

\* stop() of a Command that was not started returned and left both handler
\* lists empty
StopWithoutStartCompletes ==
    (lastOp.name \in {"stop", "stop raised"} /\ ~lastOp.startedBefore) =>
        /\ lastOp.name = "stop"
        /\ local_handlers = << >>
        /\ _command_handlers = << >>

\* C14: for a Command whose appdata is an AppData class, after start(), any
\* changes to self.appdata and stop(), the JSON file holds exactly the
\* mapping self.appdata holds; and stop() without a preceding start()
\* returns and leaves both handler lists empty.
C14_StopPersistsSettings ==
    /\ StopSavedSettings
    /\ StopWithoutStartCompletes

-----------------------------------------------------------------------------
(* Properties of log (SpecLog) *)

\* the calls of app.log of the last log call that name the log type
CallsTo(type) ==
    {i \in 1..Len(lastOp.calls) : lastOp.calls[i].type = type}

\* C15: a call of log with a sep that is not a str raises TypeError and
\* calls app.log not at all.  Any other call raises nothing; every call of
\* app.log it makes carries the joined message; it calls app.log with the
\* level and the file log type once when the level is ErrorLogLevel and
\* not at all otherwise, with the level and the console log type once when
\* DEBUG or force_console is set and not at all otherwise, and after those
\* once with the message alone; it makes no other call.
C15_LogRoutesBySeverityAndSink ==
    lastOp.name = "log" =>
        IF ~IsStr(lastOp.sep)
            THEN /\ lastOp.exc = "TypeError: Invalid sep"
                 /\ lastOp.calls = << >>
            ELSE /\ lastOp.exc = "None"
                 /\ \A i \in 1..Len(lastOp.calls) :
                       lastOp.calls[i].message = Join(lastOp.sep, lastOp.args)
                 /\ Len(lastOp.args) = 2 =>
                       Join(lastOp.sep, lastOp.args)
                         = Str(lastOp.args[1]) \o Chars(lastOp.sep)
                              \o Str(lastOp.args[2])
                 /\ Cardinality(CallsTo("FileLogType"))
                       = IF lastOp.level = "ErrorLogLevel" THEN 1 ELSE 0
                 /\ Cardinality(CallsTo("ConsoleLogType"))
                       = IF DEBUG \/ lastOp.force_console THEN 1 ELSE 0
                 /\ \A i \in CallsTo("FileLogType") \cup CallsTo("ConsoleLogType") :
                       lastOp.calls[i].level = lastOp.level
                 /\ CallsTo("default") = {Len(lastOp.calls)}
                 /\ lastOp.calls[Len(lastOp.calls)].level = "default"
                 /\ Len(lastOp.calls)
                       = Cardinality(CallsTo("FileLogType"))
                          + Cardinality(CallsTo("ConsoleLogType")) + 1

\* a warning of two arguments was logged with DEBUG off and force_console
\* set: it reached the console and the default log, not the file
C15_Witness ==
    /\ lastOp.name = "log"
    /\ ~DEBUG
    /\ lastOp.level = "WarningLogLevel"
    /\ lastOp.force_console
    /\ lastOp.sep = "', '"
    /\ Len(lastOp.args) = 2
    /\ Len(lastOp.calls) = 2
    /\ lastOp.calls[1].message = "1, True"

\* a call with sep = None raised and forwarded nothing
C15_WitnessInvalidSep ==
    /\ lastOp.name = "log"
    /\ lastOp.sep = "None"
    /\ lastOp.exc # "None"

-----------------------------------------------------------------------------
(* Properties of DirectModelMode (SpecDesigns) *)

\* C8: a design that is Parametric when the context manager is constructed
\* is Direct from __enter__ until __exit__ and Parametric after it; for a
\* design that is already Direct neither __enter__ nor __exit__ writes the
\* design type; either way the design type after __exit__ is the one at
\* construction, also when the body raised.
C8_ScopedFlipRestored ==
    /\ \A i \in 1..Len(stack) : designType[stack[i].target] = Direct
    /\ lastExit.target # "None" =>
          /\ lastExit.after = lastExit.atInit
          /\ lastExit.atInit = Direct => ~lastExit.wrote
          /\ lastExit.atInit = Parametric => lastExit.wrote

\* a with-block on a Parametric design was left by an exception
C8_Witness ==
    /\ lastExit.target = "other"
    /\ ~lastExit.decorated
    /\ lastExit.atInit = Parametric
    /\ lastExit.body.kind = "raised"
    /\ lastExit.after = Parametric

\* C9: a decorated function runs with the active design Direct for its whole
\* body; its result or exception passes through unchanged; the design is
\* switched back when the outermost call ends, and the end of an inner
\* decorated call leaves the design Direct for the calls still running.
C9_DecoratedRunsInDirectMode ==
    /\ \A i \in 1..Len(stack) :
          stack[i].decorated => designType["active"] = Direct
    /\ lastExit.decorated =>
          /\ lastExit.out = lastExit.body
          /\ lastExit.outer = 0 => lastExit.after = lastExit.atInit
          /\ lastExit.outer > 0 => lastExit.after = Direct

\* an inner decorated call raised while an outer decorated call, entered on
\* a Parametric design, is still running
C9_Witness ==
    /\ lastExit.decorated
    /\ lastExit.outer > 0
    /\ lastExit.body.kind = "raised"
    /\ Len(stack) >= 1
    /\ stack[1].decorated
    /\ stack[1].atInit = Parametric
    /\ designType["active"] = Direct

\* the outermost decorated call on a Parametric design returned
C9_WitnessOutermost ==
    /\ lastExit.decorated
    /\ lastExit.outer = 0
    /\ lastExit.atInit = Parametric
    /\ lastExit.after = Parametric

=============================================================================
